---------------------------- MODULE Spec2Model ----------------------------
(***************************************************************************)
(* A model of the coolc-rs lexer: the Cursor, the five Rule kinds          *)
(* (LiteralRule, KeywordRule, RegexRule, StringRule, BlockCommentRule),    *)
(* the Lexer::lex driver loop and the rule list of the command line tool.  *)
(*                                                                         *)
(* A Rust &str is a sequence of characters; every character is a TLA+      *)
(* string (a letter or a symbol stands for itself, the characters that     *)
(* cannot be written get a name).  str::len, the token lengths and the     *)
(* slice offsets of the code count UTF-8 bytes, Chars counts characters:   *)
(* the model keeps both units, and a slice at an offset that is not a      *)
(* character boundary is the panic it is in Rust.                          *)
(***************************************************************************)
EXTENDS Integers, Sequences, FiniteSets, TLC

VARIABLES
    pc,             \* where the caller of the lexer stands
    rules,          \* Lexer.rules, the rule list given to Lexer::new
    kwOrder,        \* iteration order of KeywordRule.mapping (a HashMap)
    files,          \* the inputs still to be lexed by this Lexer
    input,          \* the text given to the running call
    current,        \* Lexer::lex `current`, the remaining input
    context,        \* Lexer::lex `context`, a LexerContext
    result,         \* Lexer::lex `result`
    current_match,  \* Lexer::lex `current_match`: [idx, token], idx 0 is None
    attempts,       \* what each rule's try_match returned in this iteration
    strRule,        \* the StringRule instance
    bcRule,         \* the BlockCommentRule instance
    origin          \* the String value whose printed form is the input

vars == <<pc, rules, kwOrder, files, input, current, context, result,
          current_match, attempts, strRule, bcRule, origin>>

---------------------------------------------------------------------------
(* Characters *)

NL     == "NL"       \* '\n'
QUOTE  == "QUOTE"    \* '"'
BSLASH == "BSLASH"   \* '\\'
NUL    == "NUL"      \* '\0'
BS     == "BS"       \* '\x08'
TAB    == "TAB"      \* '\t'
FF     == "FF"       \* '\x0C'
VT     == "VT"       \* '\x0B'
CR     == "CR"       \* '\r'
SP     == "SP"       \* ' '
EACUTE == "E_ACUTE"  \* U+00E9, two bytes in UTF-8

Digits == {"0", "1", "2", "3", "4", "5", "6", "7", "8", "9"}

LowerSeq == <<"a", "b", "c", "d", "e", "f", "g", "h", "i", "j", "k", "l", "m",
              "n", "o", "p", "q", "r", "s", "t", "u", "v", "w", "x", "y", "z">>

UpperSeq == <<"A", "B", "C", "D", "E", "F", "G", "H", "I", "J", "K", "L", "M",
              "N", "O", "P", "Q", "R", "S", "T", "U", "V", "W", "X", "Y", "Z">>

Lower == {LowerSeq[i] : i \in DOMAIN LowerSeq}

Upper == {UpperSeq[i] : i \in DOMAIN UpperSeq}

IdChars == Lower \cup Upper \cup Digits \cup {"_"}

Blank == {SP, TAB, CR, FF, VT}

\* char::len_utf8
Width(c) == IF c = EACUTE THEN 2 ELSE 1

\* char::to_lowercase
ToLower(c) ==
    IF c \in Upper THEN LowerSeq[CHOOSE i \in DOMAIN UpperSeq : UpperSeq[i] = c]
    ELSE c

\* str::to_lowercase
LowerStr(s) == [i \in DOMAIN s |-> ToLower(s[i])]

---------------------------------------------------------------------------
(* &str: lengths and slices in bytes *)

RECURSIVE ByteLen(_)
\* str::len
ByteLen(s) == IF s = <<>> THEN 0 ELSE Width(Head(s)) + ByteLen(Tail(s))

Prefix(s, k) == SubSeq(s, 1, k)

Drop(s, k) == SubSeq(s, k + 1, Len(s))

\* str::is_char_boundary
IsBoundary(s, n) == \E k \in 0..Len(s) : ByteLen(Prefix(s, k)) = n

\* the number of characters in the first n bytes of s, n a boundary
CharsIn(s, n) == CHOOSE k \in 0..Len(s) : ByteLen(Prefix(s, k)) = n

\* &s[n..] and &s[..n]: both panic unless n is a character boundary of s
SliceFrom(s, n) == Drop(s, CharsIn(s, n))

SliceTo(s, n) == Prefix(s, CharsIn(s, n))

RECURSIVE RunLen(_, _)
\* the number of leading characters of s that are in set
RunLen(s, set) ==
    IF s # <<>> /\ Head(s) \in set THEN 1 + RunLen(Tail(s), set) ELSE 0

RECURSIVE RunLenNot(_, _)
\* the number of leading characters of s that are not in set
RunLenNot(s, set) ==
    IF s # <<>> /\ Head(s) \notin set THEN 1 + RunLenNot(Tail(s), set) ELSE 0

StartsWith(s, p) == Len(s) >= Len(p) /\ Prefix(s, Len(p)) = p

---------------------------------------------------------------------------
(* Tokens *)

Token(kind, val, length) == [kind |-> kind, val |-> val, length |-> length]

\* Option::None of try_match
NoToken == Token("None", <<>>, 0)

IsSome(tok) == tok.kind # "None"

\* what a call of try_match gives: the rule's state after it, the token, or
\* the panic of a slice inside it
Outcome(st, tok) == [panic |-> FALSE, st |-> st, tok |-> tok]

PanicOutcome(st) == [panic |-> TRUE, st |-> st, tok |-> NoToken]

\* what a call of accept gives: the remaining input and the context
Accepted(rest, ctx, st) == [panic |-> FALSE, rest |-> rest, ctx |-> ctx, st |-> st]

AcceptPanic(ctx, st) == [panic |-> TRUE, rest |-> <<>>, ctx |-> ctx, st |-> st]

---------------------------------------------------------------------------
(* Cursor *)

\* Option::None of bump, peek and second
NoChar == "EOF"

\* a cursor whose initial_len counts characters
CursorFromChars(s) == [initial_len |-> Len(s), chars |-> s]

\* Cursor::from
CursorFrom(s) == [initial_len |-> ByteLen(s), chars |-> s]

\* Cursor::bump, the cursor after it
Bump(cur) == IF cur.chars = <<>> THEN cur ELSE [cur EXCEPT !.chars = Tail(@)]

\* Cursor::peek
Peek(cur) == IF cur.chars = <<>> THEN NoChar ELSE cur.chars[1]

\* Cursor::second
Second(cur) == IF Len(cur.chars) < 2 THEN NoChar ELSE cur.chars[2]

\* Cursor::peek_many panics when byte n of the rest is inside a character
PeekManyPanics(cur, n) ==
    ByteLen(cur.chars) >= n /\ ~IsBoundary(cur.chars, n)

\* Cursor::peek_many
PeekMany(cur, n) ==
    IF ByteLen(cur.chars) >= n THEN SliceTo(cur.chars, n) ELSE cur.chars

\* Cursor::next_is_null
NextIsNull(cur) == Peek(cur) = NUL

\* Cursor::next_is_newline
NextIsNewline(cur) == Peek(cur) = NL

\* Cursor::is_eof
IsEof(cur) == cur.chars = <<>>

\* Cursor::consumed_len, in bytes
ConsumedLen(cur) == cur.initial_len - ByteLen(cur.chars)

\* Cursor::length_including, in characters
LengthIncluding(cur, set) ==
    IF \E i \in DOMAIN cur.chars : cur.chars[i] \in set
    THEN CHOOSE i \in DOMAIN cur.chars :
             /\ cur.chars[i] \in set
             /\ \A j \in 1..(i - 1) : cur.chars[j] \notin set
    ELSE Len(cur.chars)

---------------------------------------------------------------------------
(* StringRule *)

\* Option::None of StringRule.recovery_consume
NoRecovery == -1

\* StringRule::default
StringRuleDefault ==
    [buffer |-> <<>>, number_of_lines |-> 0, recovery_consume |-> NoRecovery]

\* a reset that leaves recovery_consume as it is
StringResetKeepRecovery(st) ==
    [buffer |-> <<>>, number_of_lines |-> 0, recovery_consume |-> st.recovery_consume]

\* a reset that leaves the buffer as it is
StringResetKeepBuffer(st) ==
    [buffer |-> st.buffer, number_of_lines |-> 0, recovery_consume |-> NoRecovery]

\* StringRule::reset
StringReset(st) ==
    [buffer |-> <<>>, number_of_lines |-> 0, recovery_consume |-> NoRecovery]

\* Result of consume_string: Ok((length, s)) or Err((length, reason)),
\* with the fields of the rule as the scan leaves them
StrResult(ok, length, val, st) ==
    [ok |-> ok, length |-> length, val |-> val, st |-> st]

\* an unescape without the arm of 'n'
UnescapeWithoutNewline(c) ==
    CASE c = "b" -> BS
      [] c = "t" -> TAB
      [] c = "f" -> FF
      [] OTHER -> c

\* the character an escape \c stands for (the arms 'b', 't', 'n', 'f',
\* '\n' and other of the match in consume_string)
Unescape(c) ==
    CASE c = "b" -> BS
      [] c = "t" -> TAB
      [] c = "n" -> NL
      [] c = "f" -> FF
      [] OTHER -> c

RECURSIVE StringLoop(_, _)
\* the loop of StringRule::consume_string
StringLoop(st, cur) ==
    IF IsEof(cur) THEN
        StrResult(FALSE, ConsumedLen(cur), <<"EOF in string constant.">>, st)
    ELSE IF NextIsNull(cur) THEN
        StrResult(FALSE, ConsumedLen(cur), <<"String contains null character.">>,
                  [st EXCEPT !.recovery_consume = LengthIncluding(cur, {NL, QUOTE})])
    ELSE IF NextIsNewline(cur) THEN
        StrResult(FALSE, ConsumedLen(Bump(cur)), <<"Unterminated string constant.">>,
                  [st EXCEPT !.number_of_lines = @ + 1])
    ELSE IF Peek(cur) = BSLASH /\ Second(cur) # NoChar THEN
        LET c    == Second(cur)
            cur2 == Bump(Bump(cur))
        IN  IF c = NUL THEN
                StrResult(FALSE, ConsumedLen(cur2),
                          <<"String contains escaped null character.">>,
                          [st EXCEPT !.recovery_consume =
                                         LengthIncluding(cur2, {NL, QUOTE})])
            ELSE IF c = NL THEN
                StringLoop([st EXCEPT !.buffer = Append(@, NL),
                                      !.number_of_lines = @ + 1], cur2)
            ELSE
                StringLoop([st EXCEPT !.buffer = Append(@, Unescape(c))], cur2)
    ELSE IF Peek(cur) = QUOTE THEN
        StrResult(TRUE, ConsumedLen(Bump(cur)), st.buffer, st)
    ELSE
        StringLoop([st EXCEPT !.buffer = Append(@, Peek(cur))], Bump(cur))

\* StringRule::consume_string
ConsumeString(st, cur) == StringLoop(StringReset(st), cur)

\* StringRule::try_match
StringTryMatch(st, source) ==
    IF source = <<>> \/ Head(source) # QUOTE THEN Outcome(st, NoToken)
    ELSE LET r == ConsumeString(st, Bump(CursorFrom(source)))
         IN  Outcome(r.st, Token(IF r.ok THEN "String" ELSE "Error", r.val, r.length))

\* the offset StringRule::accept slices the source at
StringAcceptOffset(st, token) ==
    IF st.recovery_consume # NoRecovery
    THEN token.length + st.recovery_consume
    ELSE token.length

\* an accept that counts one line for an error token, however many
\* newlines the scan has read
StringAcceptOneLine(st, token, ctx, source) ==
    LET ctx2 == [ctx EXCEPT !.line_number =
                     @ + IF st.number_of_lines > 0 THEN 1 ELSE 0]
        off  == StringAcceptOffset(st, token)
    IN  IF IsBoundary(source, off)
        THEN Accepted(SliceFrom(source, off), ctx2, st)
        ELSE AcceptPanic(ctx2, st)

\* StringRule::accept
StringAccept(st, token, ctx, source) ==
    LET ctx2 == [ctx EXCEPT !.line_number = @ + st.number_of_lines]
        off  == StringAcceptOffset(st, token)
    IN  IF IsBoundary(source, off)
        THEN Accepted(SliceFrom(source, off), ctx2, st)
        ELSE AcceptPanic(ctx2, st)

---------------------------------------------------------------------------
(* BlockCommentRule *)

\* BlockCommentRule::default
BlockCommentDefault == [depth |-> 0, number_of_lines |-> 0]

\* a scan that counts the opening delimiter before it reads it
CommentResetDepthOne(st) == [depth |-> 1, number_of_lines |-> 0]

\* a scan that starts from the depth the previous scan ended with
CommentResetKeepDepth(st) == [depth |-> st.depth, number_of_lines |-> 0]

\* the two assignments that open BlockCommentRule::consume_comment
CommentReset(st) == [depth |-> 0, number_of_lines |-> 0]

RECURSIVE CommentLoop(_, _)
\* the loop of BlockCommentRule::consume_comment
CommentLoop(st, cur) ==
    LET c    == Peek(cur)
        cur1 == Bump(cur)
    IN  IF c = "(" /\ Peek(cur1) = "*" THEN
            CommentLoop([st EXCEPT !.depth = @ + 1], Bump(cur1))
        ELSE IF c = "*" /\ Peek(cur1) = ")" THEN
            LET st2 == [st EXCEPT !.depth = @ - 1]
            IN  IF st2.depth = 0 THEN
                    StrResult(TRUE, ConsumedLen(Bump(cur1)), <<>>, st2)
                ELSE IF st2.depth < 0 THEN
                    StrResult(FALSE, ConsumedLen(Bump(cur1)), <<"Unmatched *)">>, st2)
                ELSE CommentLoop(st2, Bump(cur1))
        ELSE IF c = NL THEN
            CommentLoop([st EXCEPT !.number_of_lines = @ + 1], cur1)
        ELSE IF c # NoChar THEN
            CommentLoop(st, cur1)
        ELSE
            StrResult(FALSE, ConsumedLen(cur), <<"EOF in comment">>, st)

RECURSIVE CommentDepths(_, _)
\* the values self.depth holds in the loop of consume_comment, one for
\* every pass: the value after the pass
CommentDepths(st, cur) ==
    LET c    == Peek(cur)
        cur1 == Bump(cur)
    IN  IF c = "(" /\ Peek(cur1) = "*" THEN
            <<st.depth + 1>> \o CommentDepths([st EXCEPT !.depth = @ + 1], Bump(cur1))
        ELSE IF c = "*" /\ Peek(cur1) = ")" THEN
            IF st.depth - 1 <= 0 THEN <<st.depth - 1>>
            ELSE <<st.depth - 1>> \o CommentDepths([st EXCEPT !.depth = @ - 1], Bump(cur1))
        ELSE IF c # NoChar THEN
            <<st.depth>> \o CommentDepths(st, cur1)
        ELSE <<st.depth>>

\* BlockCommentRule::consume_comment
ConsumeComment(st, cur) == CommentLoop(CommentReset(st), cur)

\* a try_match without the test for a leading closer
BlockCommentTryMatchOpenOnly(st, source) ==
    LET cur == CursorFrom(source)
    IN  IF PeekManyPanics(cur, 2) THEN PanicOutcome(st)
        ELSE IF PeekMany(cur, 2) # <<"(", "*">> THEN Outcome(st, NoToken)
        ELSE LET r == ConsumeComment(st, cur)
             IN  Outcome(r.st, Token(IF r.ok THEN "BlockComment" ELSE "Error",
                                     r.val, r.length))

\* a try_match that scans whatever does not start with a closer
BlockCommentTryMatchNoGuard(st, source) ==
    LET cur == CursorFrom(source)
    IN  IF PeekManyPanics(cur, 2) THEN PanicOutcome(st)
        ELSE IF PeekMany(cur, 2) = <<"*", ")">> THEN
            Outcome(st, Token("Error", <<"Unmatched *)">>, 2))
        ELSE LET r == ConsumeComment(st, cur)
             IN  Outcome(r.st, Token(IF r.ok THEN "BlockComment" ELSE "Error",
                                     r.val, r.length))

\* BlockCommentRule::try_match
BlockCommentTryMatch(st, source) ==
    LET cur == CursorFrom(source)
    IN  IF PeekManyPanics(cur, 2) THEN PanicOutcome(st)
        ELSE IF PeekMany(cur, 2) = <<"*", ")">> THEN
            Outcome(st, Token("Error", <<"Unmatched *)">>, 2))
        ELSE IF PeekMany(cur, 2) # <<"(", "*">> THEN Outcome(st, NoToken)
        ELSE LET r == ConsumeComment(st, cur)
             IN  Outcome(r.st, Token(IF r.ok THEN "BlockComment" ELSE "Error",
                                     r.val, r.length))

\* BlockCommentRule::accept
BlockCommentAccept(st, token, ctx, source) ==
    LET ctx2 == [ctx EXCEPT !.line_number = @ + st.number_of_lines]
    IN  IF IsBoundary(source, token.length)
        THEN Accepted(SliceFrom(source, token.length), ctx2, st)
        ELSE AcceptPanic(ctx2, st)

---------------------------------------------------------------------------
(* KeywordRule *)

KeywordEntry(key, kind) == [key |-> key, kind |-> kind]

\* Option::None of the iterator's last()
NoEntry == KeywordEntry(<<>>, "None")

RECURSIVE KeywordFilter(_, _, _, _)
\* mapping.iter().filter(..).last() of KeywordRule::try_match, over the
\* entries in the order the map yields them: the last entry the closure
\* lets through, or the panic of source[..key.len()]
KeywordFilter(order, source, longest_match_length, last) ==
    IF order = <<>> THEN [panic |-> FALSE, last |-> last]
    ELSE LET e    == Head(order)
             klen == ByteLen(e.key)
         IN  IF longest_match_length > klen THEN
                 KeywordFilter(Tail(order), source, longest_match_length, last)
             ELSE IF ByteLen(source) >= klen THEN
                 IF ~IsBoundary(source, klen) THEN [panic |-> TRUE, last |-> last]
                 ELSE IF LowerStr(SliceTo(source, klen)) = LowerStr(e.key) THEN
                     KeywordFilter(Tail(order), source, klen, e)
                 ELSE KeywordFilter(Tail(order), source, longest_match_length, last)
             ELSE KeywordFilter(Tail(order), source, longest_match_length, last)

\* KeywordRule::try_match
KeywordTryMatch(order, source) ==
    LET mat == KeywordFilter(order, source, 0, NoEntry)
    IN  IF mat.panic THEN PanicOutcome(order)
        ELSE IF mat.last = NoEntry THEN Outcome(order, NoToken)
        ELSE Outcome(order, Token("Keyword", <<mat.last.kind>>, ByteLen(mat.last.key)))

\* an accept that resumes one byte before the end of the token
DefaultAcceptRevisit(st, token, ctx, source) ==
    IF IsBoundary(source, token.length - 1)
    THEN Accepted(SliceFrom(source, token.length - 1), ctx, st)
    ELSE AcceptPanic(ctx, st)

\* &source[token.length..], the accept of KeywordRule, of LiteralRule and
\* of a RegexRule without accepting_fn
DefaultAccept(st, token, ctx, source) ==
    IF IsBoundary(source, token.length)
    THEN Accepted(SliceFrom(source, token.length), ctx, st)
    ELSE AcceptPanic(ctx, st)

\* the keyword mapping of the command line tool (the second "not" entry
\* replaces the first in the map)
CliMapping ==
    { KeywordEntry(<<"c", "l", "a", "s", "s">>, "Class"),
      KeywordEntry(<<"e", "l", "s", "e">>, "Else"),
      KeywordEntry(<<"f", "i">>, "Fi"),
      KeywordEntry(<<"i", "f">>, "If"),
      KeywordEntry(<<"i", "n">>, "In"),
      KeywordEntry(<<"i", "n", "h", "e", "r", "i", "t", "s">>, "Inherits"),
      KeywordEntry(<<"i", "s", "v", "o", "i", "d">>, "IsVoid"),
      KeywordEntry(<<"l", "e", "t">>, "Let"),
      KeywordEntry(<<"l", "o", "o", "p">>, "Loop"),
      KeywordEntry(<<"p", "o", "o", "l">>, "Pool"),
      KeywordEntry(<<"t", "h", "e", "n">>, "Then"),
      KeywordEntry(<<"w", "h", "i", "l", "e">>, "While"),
      KeywordEntry(<<"c", "a", "s", "e">>, "Case"),
      KeywordEntry(<<"e", "s", "a", "c">>, "Esac"),
      KeywordEntry(<<"n", "e", "w">>, "New"),
      KeywordEntry(<<"o", "f">>, "Of"),
      KeywordEntry(<<"n", "o", "t">>, "Not") }

\* the mapping of test_keyword_rule
TestMapping ==
    { KeywordEntry(<<"I", "n", "h", "e", "R", "i", "t", "s">>, "Inherits"),
      KeywordEntry(<<"i", "n">>, "In") }

---------------------------------------------------------------------------
(* LiteralRule *)

\* LiteralRule::try_match
LiteralTryMatch(lit, kind, source) ==
    IF ByteLen(source) >= ByteLen(lit) THEN
        IF ~IsBoundary(source, ByteLen(lit)) THEN PanicOutcome(lit)
        ELSE IF SliceTo(source, ByteLen(lit)) = lit
             THEN Outcome(lit, Token(kind, <<>>, ByteLen(lit)))
             ELSE Outcome(lit, NoToken)
    ELSE Outcome(lit, NoToken)

---------------------------------------------------------------------------
(* RegexRule.  Every pattern is anchored by \A and leftmost-first: the    *)
(* number of characters the regex of the rule matches at the start of     *)
(* the source, -1 when it does not match.                                 *)

\* --[^\n]*$ with multi_line: $ holds at the end and before a newline
LineCommentFind(s) ==
    IF StartsWith(s, <<"-", "-">>) THEN 2 + RunLenNot(Drop(s, 2), {NL}) ELSE -1

\* t(?i:rue) and f(?i:alse): first letter as written, the rest in any case
WordFind(s, word) ==
    IF /\ Len(s) >= Len(word)
       /\ s[1] = word[1]
       /\ \A i \in 2..Len(word) : ToLower(s[i]) = word[i]
    THEN Len(word) ELSE -1

\* [0-9]+ without the \A in front: the first run of digits, wherever it
\* starts, and mat.end() - mat.start() of it
IntFindUnanchored(s) ==
    IF \A i \in DOMAIN s : s[i] \notin Digits THEN -1
    ELSE LET p == CHOOSE i \in DOMAIN s :
                      s[i] \in Digits /\ \A j \in 1..(i - 1) : s[j] \notin Digits
         IN  RunLen(Drop(s, p - 1), Digits)

\* [0-9]* in the place of [0-9]+: a match of no digit at all
IntFindNullable(s) == RunLen(s, Digits)

\* [0-9]+
IntFind(s) == IF RunLen(s, Digits) > 0 THEN RunLen(s, Digits) ELSE -1

\* (SELF_TYPE|[A-Z][A-Za-z0-9_]*) and (self|[a-z][A-Za-z0-9_]*): the first
\* alternative wins when it matches, whatever follows it
IdFind(s, word, first) ==
    IF StartsWith(s, word) THEN Len(word)
    ELSE IF s # <<>> /\ s[1] \in first THEN 1 + RunLen(Tail(s), IdChars)
    ELSE -1

\* \n
NewlineFind(s) == IF s # <<>> /\ s[1] = NL THEN 1 ELSE -1

\* [ \t\r\f\v]+
BlankFind(s) == IF RunLen(s, Blank) > 0 THEN RunLen(s, Blank) ELSE -1

\* . with dot_matches_new_line: any one character
AnyFind(s) == IF s # <<>> THEN 1 ELSE -1

\* Regex::find of the pattern named re
RegexFind(re, s) ==
    CASE re = "LineComment" -> LineCommentFind(s)
      [] re = "True"        -> WordFind(s, <<"t", "r", "u", "e">>)
      [] re = "False"       -> WordFind(s, <<"f", "a", "l", "s", "e">>)
      [] re = "Int"         -> IntFind(s)
      [] re = "TypeId"      -> IdFind(s, <<"S", "E", "L", "F", "_", "T", "Y", "P", "E">>, Upper)
      [] re = "ObjectId"    -> IdFind(s, <<"s", "e", "l", "f">>, Lower)
      [] re = "Newline"     -> NewlineFind(s)
      [] re = "Whitespace"  -> BlankFind(s)
      [] re = "CatchAll"    -> AnyFind(s)

\* RegexRule::try_match: the token kind is fixed or made of the matched text
RegexTryMatch(rule, source) ==
    LET m == RegexFind(rule.re, source)
    IN  IF m < 0 THEN Outcome(rule, NoToken)
        ELSE Outcome(rule, Token(rule.kind,
                                 IF rule.refined THEN Prefix(source, m) ELSE rule.val,
                                 ByteLen(Prefix(source, m))))

\* an accepting_fn that counts the line and leaves the newline in place
LineCommentAcceptKeepNewline(st, token, ctx, source) ==
    IF token.length >= ByteLen(source) THEN Accepted(<<>>, ctx, st)
    ELSE LET ctx2 == [ctx EXCEPT !.line_number = @ + 1]
         IN  IF IsBoundary(source, token.length)
             THEN Accepted(SliceFrom(source, token.length), ctx2, st)
             ELSE AcceptPanic(ctx2, st)

\* the accepting_fn of the line comment rule
LineCommentAccept(st, token, ctx, source) ==
    IF token.length >= ByteLen(source) THEN Accepted(<<>>, ctx, st)
    ELSE LET ctx2 == [ctx EXCEPT !.line_number = @ + 1]
         IN  IF IsBoundary(source, token.length + 1)
             THEN Accepted(SliceFrom(source, token.length + 1), ctx2, st)
             ELSE AcceptPanic(ctx2, st)

\* the accepting_fn of the newline rule
NewlineAccept(st, token, ctx, source) ==
    LET ctx2 == [ctx EXCEPT !.line_number = @ + 1]
    IN  IF IsBoundary(source, 1)
        THEN Accepted(SliceFrom(source, 1), ctx2, st)
        ELSE AcceptPanic(ctx2, st)

\* RegexRule::accept
RegexAccept(rule, token, ctx, source) ==
    CASE rule.accepting = "LineComment" -> LineCommentAccept(rule, token, ctx, source)
      [] rule.accepting = "Newline"     -> NewlineAccept(rule, token, ctx, source)
      [] OTHER                          -> DefaultAccept(rule, token, ctx, source)

---------------------------------------------------------------------------
(* The rule list *)

Rule(type, lit, re, kind, val, refined, accepting) ==
    [type |-> type, lit |-> lit, re |-> re, kind |-> kind, val |-> val,
     refined |-> refined, accepting |-> accepting]

\* KeywordRule::new
KeywordRule == Rule("Keyword", <<>>, "", "Keyword", <<>>, FALSE, "")

\* LiteralRule::new, lit_rule
LiteralRule(lit, kind) == Rule("Literal", lit, "", kind, <<>>, FALSE, "")

\* RegexRule::new, re_rule
RegexRule(re, kind, val) == Rule("Regex", <<>>, re, kind, val, FALSE, "")

\* RegexRule::refined, refined_re_rule
RefinedRule(re, kind) == Rule("Regex", <<>>, re, kind, <<>>, TRUE, "")

\* RegexRule::with_accepting_fn
WithAcceptingFn(rule, fn) == [rule EXCEPT !.accepting = fn]

\* StringRule::default as a list entry
StringRule == Rule("String", <<>>, "", "String", <<>>, FALSE, "")

\* BlockCommentRule::default as a list entry
BlockCommentRule == Rule("BlockComment", <<>>, "", "BlockComment", <<>>, FALSE, "")

\* rules() of the command line tool
CliRules ==
    << KeywordRule,
       LiteralRule(<<"<", "=">>, "Le"),
       LiteralRule(<<"=", ">">>, "DArrow"),
       LiteralRule(<<"<", "-">>, "Assign"),
       BlockCommentRule,
       WithAcceptingFn(RegexRule("LineComment", "LineComment", <<>>), "LineComment"),
       StringRule,
       LiteralRule(<<"{">>, "OpenBrace"),
       LiteralRule(<<"}">>, "CloseBrace"),
       LiteralRule(<<"(">>, "OpenParen"),
       LiteralRule(<<")">>, "CloseParen"),
       LiteralRule(<<":">>, "Colon"),
       LiteralRule(<<";">>, "SemiColon"),
       LiteralRule(<<"@">>, "At"),
       LiteralRule(<<".">>, "Dot"),
       LiteralRule(<<",">>, "Comma"),
       LiteralRule(<<"=">>, "Equal"),
       LiteralRule(<<"~">>, "Tilde"),
       LiteralRule(<<"+">>, "Plus"),
       LiteralRule(<<"-">>, "Minus"),
       LiteralRule(<<"*">>, "Star"),
       LiteralRule(<<"/">>, "Slash"),
       LiteralRule(<<"<">>, "Lt"),
       RegexRule("True", "Bool", <<"true">>),
       RegexRule("False", "Bool", <<"false">>),
       RefinedRule("Int", "Int"),
       RefinedRule("TypeId", "TypeId"),
       RefinedRule("ObjectId", "ObjectId"),
       WithAcceptingFn(RegexRule("Newline", "Whitespace", <<>>), "Newline"),
       RegexRule("Whitespace", "Whitespace", <<>>),
       RefinedRule("CatchAll", "Error") >>

---------------------------------------------------------------------------
(* Lexer *)

\* LexerContext::default
LexerContextDefault == [line_number |-> 1]

\* Option::None of current_match
NoMatch == [idx |-> 0, token |-> NoToken]

\* the state of the two stateful rules of a rule list
RuleStates(str, bc) == [str |-> str, bc |-> bc]

\* rule.try_match(source), by the kind of the rule
TryMatch(rule, order, st, source) ==
    CASE rule.type = "Keyword" ->
            LET o == KeywordTryMatch(order, source)
            IN  [panic |-> o.panic, st |-> st, tok |-> o.tok]
      [] rule.type = "Literal" ->
            LET o == LiteralTryMatch(rule.lit, rule.kind, source)
            IN  [panic |-> o.panic, st |-> st, tok |-> o.tok]
      [] rule.type = "Regex" ->
            LET o == RegexTryMatch(rule, source)
            IN  [panic |-> o.panic, st |-> st, tok |-> o.tok]
      [] rule.type = "String" ->
            LET o == StringTryMatch(st.str, source)
            IN  [panic |-> o.panic, st |-> [st EXCEPT !.str = o.st], tok |-> o.tok]
      [] rule.type = "BlockComment" ->
            LET o == BlockCommentTryMatch(st.bc, source)
            IN  [panic |-> o.panic, st |-> [st EXCEPT !.bc = o.st], tok |-> o.tok]

\* rule.accept(token, context, source), by the kind of the rule
Accept(rule, st, token, ctx, source) ==
    CASE rule.type = "String"       -> StringAccept(st.str, token, ctx, source)
      [] rule.type = "BlockComment" -> BlockCommentAccept(st.bc, token, ctx, source)
      [] rule.type = "Regex"        -> RegexAccept(rule, token, ctx, source)
      [] OTHER                      -> DefaultAccept(rule, token, ctx, source)

\* the same test with >= for >: the last of the longest matches would win
ReplacesOnTie(token, cm) ==
    IF cm.idx = 0 THEN TRUE ELSE token.length >= cm.token.length

\* the test of Lexer::lex that lets a token replace current_match
Replaces(token, cm) == IF cm.idx = 0 THEN TRUE ELSE token.length > cm.token.length

RECURSIVE ForEachRule(_, _, _, _, _, _, _)
\* the for loop of Lexer::lex over self.rules from rule i on: the states of
\* the rules, current_match and the tokens returned, or the panic of a rule
ForEachRule(rs, i, order, source, st, cm, atts) ==
    IF i > Len(rs) THEN [panic |-> FALSE, st |-> st, cm |-> cm, atts |-> atts]
    ELSE LET o == TryMatch(rs[i], order, st, source)
         IN  IF o.panic THEN [panic |-> TRUE, st |-> o.st, cm |-> cm, atts |-> atts]
             ELSE ForEachRule(rs, i + 1, order, source, o.st,
                              IF IsSome(o.tok) /\ Replaces(o.tok, cm)
                              THEN [idx |-> i, token |-> o.tok] ELSE cm,
                              Append(atts, o.tok))

---------------------------------------------------------------------------
(* common: escaped_string, used by the Display of a String token *)

\* c.is_ascii() && !c.is_control(), for the characters of the model
IsPrintableAscii(c) == c \notin {NUL, BS, TAB, NL, VT, FF, CR, EACUTE}

\* c as u32, for the characters that are not printable ASCII
CodePoint(c) ==
    CASE c = NUL -> 0
      [] c = BS -> 8
      [] c = TAB -> 9
      [] c = NL -> 10
      [] c = VT -> 11
      [] c = FF -> 12
      [] c = CR -> 13
      [] c = EACUTE -> 233

OctalDigit(n) == <<"0", "1", "2", "3", "4", "5", "6", "7">>[n + 1]

\* format!("\\{:03o}", n) for n below 512
Octal(n) ==
    <<BSLASH, OctalDigit(n \div 64), OctalDigit((n \div 8) % 8), OctalDigit(n % 8)>>

\* one arm of the match of escaped_string
EscapeChar(c) ==
    CASE c = BSLASH -> <<BSLASH, BSLASH>>
      [] c = QUOTE -> <<BSLASH, QUOTE>>
      [] c = NL -> <<BSLASH, "n">>
      [] c = TAB -> <<BSLASH, "t">>
      [] c = BS -> <<BSLASH, "b">>
      [] c = FF -> <<BSLASH, "f">>
      [] OTHER -> IF IsPrintableAscii(c) THEN <<c>> ELSE Octal(CodePoint(c))

RECURSIVE EscapedString(_)
\* escaped_string
EscapedString(s) ==
    IF s = <<>> THEN <<>> ELSE EscapeChar(Head(s)) \o EscapedString(Tail(s))

\* the string literal that Display writes for TokenKind::String(s), without
\* the STR_CONST in front
Printed(s) == <<QUOTE>> \o EscapedString(s) \o <<QUOTE>>

---------------------------------------------------------------------------
(* The inputs: every text of at most MaxLen characters of Alphabet, and   *)
(* the texts of the tests and of the documented examples.                 *)

MaxLen == 3

Alphabet == {"(", "*", ")", NL, QUOTE, NUL, EACUTE}

\* the texts of at most n characters of set
Texts(set, n) == UNION {[1..k -> set] : k \in 0..n}

Samples ==
    { <<"(", "*", NL, "*", ")", "*", ")", "x">>,
      <<QUOTE, "a", "b", NUL, "c", "d", QUOTE, NL, "c", "l", "a", "s", "s">>,
      <<"(", "*", SP, "(", "*", SP, "x", SP, "*", ")", SP, "y", SP, "*", ")">>,
      <<"(", "*", SP, "x", SP, "*", ")", SP, "*", ")">>,
      <<"i", "n", "h", "e", "r", "i", "t", "s", SP, "f", "o", "o">>,
      <<"i", "n">>,
      <<"i", "n", "x">>,
      <<"<", "=">>,
      <<"-", "-", "x", NL, "x">>,
      <<"-", "-", "x">>,
      <<"1", "2", "3", "1", "3", NL, TAB, "l", "e", "t", SP, "a", SP, "<", "-", SP, "1", "0">>,
      <<QUOTE, BSLASH, NUL, EACUTE, QUOTE, "x">>,
      <<QUOTE, NUL, "a", "a", "a", "a", "a", "a", EACUTE, QUOTE, "x">>,
      <<"(", "*", NL, "*", ")", QUOTE, BSLASH, NL, QUOTE,
        "(", "*", "*", ")", QUOTE, "a", QUOTE>> }

Inputs == Texts(Alphabet, MaxLen) \cup Samples

\* first files that leave each stateful rule with its fields set
FirstFiles ==
    { <<"(", "*", NL>>, <<QUOTE, NUL, "x">>, <<QUOTE, BSLASH, NL>> }

\* the FILES of a run of the tool: one file, or one of FirstFiles and a
\* second file
FileLists ==
    {<<a>> : a \in Inputs}
        \cup {<<f, a>> : f \in FirstFiles, a \in Texts(Alphabet, MaxLen - 1)}
        \cup {<< <<"(", "*", NL>>, <<"(", "*", "*", ")", QUOTE, QUOTE>> >>}

\* the entries of CliMapping in the order of the vec! they are collected from
CliOrder ==
    LET RECURSIVE Order(_)
        Order(set) == IF set = {} THEN <<>>
                      ELSE LET e == CHOOSE x \in set : TRUE
                           IN  <<e>> \o Order(set \ {e})
    IN  Order(CliMapping)

Reverse(s) == [i \in DOMAIN s |-> s[Len(s) + 1 - i]]

\* the iteration orders of the map the model tries
CliOrders == {CliOrder, Reverse(CliOrder)}

RuleSets == {CliRules}

---------------------------------------------------------------------------
(* main: one Lexer, built once, lexes the files one after the other *)

\* the input is a file, not the printed form of a String token
NoOrigin == <<NoChar>>

\* Lexer::new(rules) with fresh rules, before the first file is read
InitWith(ruleSets, orders, fileLists) ==
    /\ pc = "idle"
    /\ rules \in ruleSets
    /\ kwOrder \in orders
    /\ files \in fileLists
    /\ input = <<>>
    /\ current = <<>>
    /\ context = LexerContextDefault
    /\ result = <<>>
    /\ current_match = NoMatch
    /\ attempts = <<>>
    /\ strRule = StringRuleDefault
    /\ bcRule = BlockCommentDefault
    /\ origin = NoOrigin

Init == InitWith(RuleSets, CliOrders, FileLists)

\* lexer.lex(&buffer) is called: the first three lines of Lexer::lex
LexCall ==
    /\ pc \in {"idle", "done"}
    /\ files # <<>>
    /\ input' = Head(files)
    /\ files' = Tail(files)
    /\ current' = Head(files)
    /\ context' = LexerContextDefault
    /\ result' = <<>>
    /\ current_match' = NoMatch
    /\ attempts' = <<>>
    /\ pc' = "loop"
    /\ origin' = NoOrigin
    /\ UNCHANGED <<rules, kwOrder, strRule, bcRule>>

\* one pass of the for loop over the rules, at a non-empty remaining input
MatchRules ==
    /\ pc = "loop"
    /\ current # <<>>
    /\ LET r == ForEachRule(rules, 1, kwOrder, current,
                            RuleStates(strRule, bcRule), NoMatch, <<>>)
       IN  /\ strRule' = r.st.str
           /\ bcRule' = r.st.bc
           /\ current_match' = r.cm
           /\ attempts' = r.atts
           /\ pc' = IF r.panic THEN "panic" ELSE "commit"
    /\ UNCHANGED <<rules, kwOrder, files, input, current, context, result,
                   origin>>

\* a commit that skips one character where no rule matched, for the panic
\* of expect
CommitSkipUnmatched ==
    /\ pc = "commit"
    /\ IF current_match.idx = 0
       THEN /\ pc' = "loop"
            /\ current' = Tail(current)
            /\ UNCHANGED <<context, result>>
       ELSE LET a == Accept(rules[current_match.idx], RuleStates(strRule, bcRule),
                            current_match.token, context, current)
            IN  IF a.panic
                THEN /\ pc' = "panic"
                     /\ context' = a.ctx
                     /\ UNCHANGED <<current, result>>
                ELSE /\ pc' = "loop"
                     /\ current' = a.rest
                     /\ context' = a.ctx
                     /\ result' = Append(result, [token |-> current_match.token,
                                                  context |-> a.ctx])
    /\ UNCHANGED <<rules, kwOrder, files, input, current_match, attempts,
                   strRule, bcRule, origin>>

\* a commit that pushes the context as it was before accept ran
CommitSnapshotBefore ==
    /\ pc = "commit"
    /\ IF current_match.idx = 0
       THEN /\ pc' = "panic"
            /\ UNCHANGED <<current, context, result>>
       ELSE LET a == Accept(rules[current_match.idx], RuleStates(strRule, bcRule),
                            current_match.token, context, current)
            IN  IF a.panic
                THEN /\ pc' = "panic"
                     /\ context' = a.ctx
                     /\ UNCHANGED <<current, result>>
                ELSE /\ pc' = "loop"
                     /\ current' = a.rest
                     /\ context' = a.ctx
                     /\ result' = Append(result, [token |-> current_match.token,
                                                  context |-> context])
    /\ UNCHANGED <<rules, kwOrder, files, input, current_match, attempts,
                   strRule, bcRule, origin>>

\* expect, accept of the winning rule, and the push of the token
Commit ==
    /\ pc = "commit"
    /\ IF current_match.idx = 0
       THEN /\ pc' = "panic"
            /\ UNCHANGED <<current, context, result>>
       ELSE LET a == Accept(rules[current_match.idx], RuleStates(strRule, bcRule),
                            current_match.token, context, current)
            IN  IF a.panic
                THEN /\ pc' = "panic"
                     /\ context' = a.ctx
                     /\ UNCHANGED <<current, result>>
                ELSE /\ pc' = "loop"
                     /\ current' = a.rest
                     /\ context' = a.ctx
                     /\ result' = Append(result, [token |-> current_match.token,
                                                  context |-> a.ctx])
    /\ UNCHANGED <<rules, kwOrder, files, input, current_match, attempts,
                   strRule, bcRule, origin>>

\* the loop ends at an empty remaining input and lex returns result
LexReturn ==
    /\ pc = "loop"
    /\ current = <<>>
    /\ pc' = "done"
    /\ UNCHANGED <<rules, kwOrder, files, input, current, context, result,
                   current_match, attempts, strRule, bcRule, origin>>

Next == LexCall \/ MatchRules \/ Commit \/ LexReturn

Spec == Init /\ [][Next]_vars

---------------------------------------------------------------------------
(* Runs of single rules: a Lexer whose rule list holds one stateful rule,  *)
(* as the unit tests of rule.rs drive a rule, next to the CLI rule list on *)
(* the documented examples.                                                 *)

CommentAlphabet == {"(", "*", ")", NL, EACUTE}

\* the comment bodies are longer than the texts of Inputs, so that nested
\* pairs and characters after the balancing closer occur
CommentBodies == Texts(CommentAlphabet, MaxLen + 3)

\* texts that start with the opening delimiter
CommentInputs == {<<"(", "*">> \o b : b \in CommentBodies}

\* the documented example of a nested comment
NestedSample ==
    <<"(", "*", SP, "(", "*", SP, "x", SP, "*", ")", SP, "y", SP, "*", ")">>

\* the documented example of a closer without an opener
CloserSample ==
    <<"(", "*", SP, "x", SP, "*", ")", SP, "*", ")">>

\* Lexer::new(vec![BlockCommentRule::default()]) on the comment texts, and
\* Lexer::new(rules()) on the two examples
InitComment ==
    \/ InitWith({<<BlockCommentRule>>}, {CliOrder},
                {<<a>> : a \in CommentInputs})
    \/ InitWith({CliRules}, {CliOrder}, {<<NestedSample>>, <<CloserSample>>})

SpecComment == InitComment /\ [][Next]_vars

KeywordAlphabet == {"i", "n", "I", "N", "f", EACUTE}

\* a text like that of test_keyword_rule: a keyword, a blank, an identifier
InheritsSample ==
    <<"i", "n", "h", "e", "r", "i", "t", "s", SP, "f", "o", "o">>

KeywordSamples ==
    { InheritsSample,
      <<"I", "N", "H", "E", "R", "I", "T", "S">>,
      <<"i", "n", "h", "e", "r", "i", "t">>,
      <<"i", "n", "h", "e", "r", "i", "t", EACUTE>>,
      <<"i", "n", "h", "e", "r", "i", "t", "s", EACUTE>>,
      <<"i", "s", "v", "o", "i", "d", "i", "f">>,
      <<"C", "l", "A", "s", "S", "n", "o", "t">> }

KeywordInputs == Texts(KeywordAlphabet, MaxLen) \cup KeywordSamples

\* every order in which a map can yield the entries of set
Orders(set) ==
    {f \in [1..Cardinality(set) -> set] : \A i, j \in DOMAIN f : f[i] = f[j] => i = j}

\* CliOrder started at its k-th entry
Rotate(s, k) == [i \in DOMAIN s |-> s[((i + k - 2) % Len(s)) + 1]]

\* the iteration orders of mapping.iter() the model tries: both orders of
\* the test mapping, and the rotations and the reverse of CliOrder
KeywordOrders ==
    Orders(TestMapping)
        \cup {Rotate(CliOrder, k) : k \in DOMAIN CliOrder}
        \cup {Reverse(CliOrder)}

\* Lexer::new(vec![KeywordRule::new(mapping)]) on the keyword texts
InitKeyword ==
    InitWith({<<KeywordRule>>}, KeywordOrders, {<<a>> : a \in KeywordInputs})

SpecKeyword == InitKeyword /\ [][Next]_vars

StringAlphabet == {QUOTE, BSLASH, NL, NUL, "n", "b", CR, EACUTE}

\* the text of test_string_rule
HelloSample ==
    <<QUOTE, "H", "e", "l", "l", "o", SP, "W", "o", "r", "l", "d", QUOTE,
      SP, "c", "l", "a", "s", "s">>

\* the text of test_string_rule_2
NumberSample ==
    <<QUOTE, BSLASH, "n", BSLASH, "t", "T", "o", SP, "a", "d", "d", SP, "a", SP,
      "n", "u", "m", "b", "e", "r", SP, "t", "o", SP, QUOTE, ")", ";">>

\* string literals with the characters escaped_string has an arm for
StringSamples ==
    { <<QUOTE, "a", TAB, BS, FF, VT, SP, "~", QUOTE>>,
      <<QUOTE, BSLASH, "t", BSLASH, "n", BSLASH, "f", BSLASH, "0",
        BSLASH, BSLASH, BSLASH, QUOTE, QUOTE>>,
      <<QUOTE, "a", QUOTE, QUOTE, BSLASH, NL, QUOTE>>,
      HelloSample,
      NumberSample }

\* texts that start with a quote
StringInputs ==
    {<<QUOTE>> \o b : b \in Texts(StringAlphabet, MaxLen + 1)} \cup StringSamples

\* Lexer::new(vec![StringRule::default()]) on the string texts
InitString ==
    InitWith({<<StringRule>>}, {CliOrder}, {<<a>> : a \in StringInputs})

\* the printed form of the String token just pushed is given to the lexer:
\* the first three lines of Lexer::lex on that text
Rescan ==
    /\ pc = "loop"
    /\ result # <<>>
    /\ result[Len(result)].token.kind = "String"
    /\ origin' = result[Len(result)].token.val
    /\ input' = Printed(result[Len(result)].token.val)
    /\ current' = Printed(result[Len(result)].token.val)
    /\ context' = LexerContextDefault
    /\ result' = <<>>
    /\ current_match' = NoMatch
    /\ attempts' = <<>>
    /\ pc' = "loop"
    /\ UNCHANGED <<rules, kwOrder, files, strRule, bcRule>>

NextString == LexCall \/ MatchRules \/ Commit \/ LexReturn \/ Rescan

SpecString == InitString /\ [][NextString]_vars

RegexAlphabet == {"1", "a", "-", NL, SP, EACUTE}

\* the text of test_try_match_matches
IntSample ==
    <<"1", "2", "3", "1", "3", NL, TAB, "l", "e", "t", SP, "a", SP, "<", "-", SP, "1", "0">>

RegexInputs ==
    Texts(RegexAlphabet, MaxLen + 1)
        \cup { IntSample,
               <<"t", "R", "u", "E", "x">>,
               <<"T", "r", "u", "e">>,
               <<"S", "E", "L", "F", "_", "T", "Y", "P", "E", "x">>,
               <<"s", "e", "l", "f", "i", "s", "h">> }

\* int_rule of the tests: RegexRule::new("[0-9]+", TokenKind::Int("0"))
IntRuleOfTest == RegexRule("Int", "Int", <<"0">>)

\* the regex rules of rules() and of the tests
RegexRules ==
    {CliRules[i] : i \in {j \in DOMAIN CliRules : CliRules[j].type = "Regex"}}
        \cup {IntRuleOfTest}

\* Lexer::new(vec![rule]) for one regex rule, on the regex texts
InitRegex ==
    InitWith({<<r>> : r \in RegexRules}, {CliOrder}, {<<a>> : a \in RegexInputs})

SpecRegex == InitRegex /\ [][Next]_vars

\* texts with a string or a comment that the end of the input cuts short,
\* or that a newline ends, for the rule list of the command line tool
ScanSamples ==
    { <<"x", SP, QUOTE, "a", BSLASH, QUOTE>>,
      <<"x", NL, "(", "*", "(", "*", "*", ")">>,
      <<QUOTE, "a", BSLASH, NL, "b", NL, "x">>,
      <<QUOTE, NL, QUOTE, "a", QUOTE>> }

\* a Lexer of one StringRule on the string texts, a Lexer of one
\* BlockCommentRule on the comment texts, and Lexer::new(rules()) on
\* ScanSamples
InitScanners ==
    \/ InitWith({<<StringRule>>}, {CliOrder}, {<<a>> : a \in StringInputs})
    \/ InitWith({<<BlockCommentRule>>}, {CliOrder}, {<<a>> : a \in CommentInputs})
    \/ InitWith({CliRules}, {CliOrder}, {<<a>> : a \in ScanSamples})

SpecScanners == InitScanners /\ [][Next]_vars

LineAlphabet == {"-", "a", NL, SP, EACUTE}

\* texts with a line comment at their start or on their second line
LineCommentInputs ==
    {p \o <<"-", "-">> \o b : p \in {<<>>, <<NL>>}, b \in Texts(LineAlphabet, MaxLen)}

\* Lexer::new(rules()) on the line comment texts
InitLineComment ==
    InitWith({CliRules}, CliOrders, {<<a>> : a \in LineCommentInputs})

SpecLineComment == InitLineComment /\ [][Next]_vars

---------------------------------------------------------------------------
(* What the claims speak of *)

\* the number of newline characters of a text
Newlines(s) == Cardinality({i \in DOMAIN s : s[i] = NL})

\* the part of the input the commits made so far have consumed
Consumed == Prefix(input, Len(input) - Len(current))

\* every rule of the list has answered in the running iteration
AllAnswered == Len(attempts) = Len(rules)

\* the rules that returned a token of the greatest length of this iteration
Longest ==
    {i \in DOMAIN attempts :
        /\ IsSome(attempts[i])
        /\ \A j \in DOMAIN attempts :
              IsSome(attempts[j]) => attempts[j].length <= attempts[i].length}

\* the token pushed by the last commit
LastPushed == result[Len(result)]

\* C1: maximal munch, first registered wins a tie.  Whenever all rules have
\* answered at a scan position and one matched, current_match is the token
\* of the lowest-indexed rule among those that returned the greatest
\* length, and that token is the one the commit pushes.
C1_MaximalMunch ==
    (AllAnswered /\ Longest # {}) =>
        LET first == CHOOSE i \in Longest : \A j \in Longest : i <= j
        IN  /\ pc \in {"commit", "loop", "done"} => current_match.idx = first
            /\ pc \in {"commit", "loop", "done"} => current_match.token = attempts[first]
            /\ pc \in {"loop", "done"} => LastPushed.token = attempts[first]

\* C1 witness: a token was pushed at a position where two rules tied on the
\* greatest length and a third rule matched a shorter text
C1_Witness ==
    /\ pc = "loop"
    /\ result # <<>>
    /\ AllAnswered
    /\ \E i, j \in Longest : i < j /\ LastPushed.token = attempts[i]
    /\ \E k \in DOMAIN attempts :
          IsSome(attempts[k]) /\ k \notin Longest

\* the text the commit of this step consumes
Span == Prefix(current, Len(current) - Len(current'))

\* C2: progress and termination.  No call of lex aborts, every iteration
\* leaves a remaining input shorter than before, and the loop ends at an
\* empty remaining input after at most as many iterations as the input has
\* characters.
C2_Progress ==
    [][ /\ pc' # "panic"
        /\ pc = "commit" => Len(current') < Len(current)
        /\ pc' = "done" => current' = <<>> /\ Len(result') <= Len(input') ]_vars

\* C3: line accounting.  The line number pushed with a token is 1 plus the
\* number of newlines consumed before it; stated for the commits that
\* consume no newline themselves, for which it does not matter whether
\* the snapshot is read as taken before or after the token's own commit.
C3_LineAccounting ==
    [][ (pc = "commit" /\ pc' = "loop" /\ Newlines(Span) = 0) =>
            context'.line_number = 1 + Newlines(Consumed) ]_vars

\* C4: line_number is 1 when a call of lex starts, no commit lowers it, and
\* a commit changes it only if it consumed at least one newline.
C4_LineNumber ==
    [][ /\ (pc \in {"idle", "done"} /\ pc' = "loop") => context'.line_number = 1
        /\ pc = "commit" => context'.line_number >= context.line_number
        /\ (pc = "commit" /\ pc' = "loop"
                /\ context'.line_number # context.line_number) =>
               Newlines(Span) >= 1 ]_vars

RECURSIVE LexLoop(_, _, _, _, _, _)
\* the while loop of Lexer::lex run to its end: the result, or the panic
LexLoop(rs, order, st, cur, ctx, res) ==
    IF cur = <<>> THEN [panic |-> FALSE, result |-> res]
    ELSE LET r == ForEachRule(rs, 1, order, cur, st, NoMatch, <<>>)
         IN  IF r.panic \/ r.cm.idx = 0 THEN [panic |-> TRUE, result |-> res]
             ELSE LET a == Accept(rs[r.cm.idx], r.st, r.cm.token, ctx, cur)
                  IN  IF a.panic THEN [panic |-> TRUE, result |-> res]
                      ELSE LexLoop(rs, order, r.st, a.rest, a.ctx,
                                   Append(res, [token |-> r.cm.token,
                                                context |-> a.ctx]))

\* Lexer::new(rules).lex(text): a call on a Lexer whose rules are fresh
FreshLex(rs, order, text) ==
    LexLoop(rs, order, RuleStates(StringRuleDefault, BlockCommentDefault),
            text, LexerContextDefault, <<>>)

\* C5: scan independence.  What a call of lex returns on a Lexer that has
\* lexed other files before is what a freshly built Lexer returns for the
\* same text, and it aborts only where the fresh one aborts.
C5_ScanIndependence ==
    /\ pc = "done" =>
          FreshLex(rules, kwOrder, input) = [panic |-> FALSE, result |-> result]
    /\ pc = "panic" => FreshLex(rules, kwOrder, input).panic

\* C6: scratch state is reset by every match attempt.  After the try_match
\* calls of an iteration, the line-delta counters and the recovery offset
\* are those a fresh rule has after the same call: nothing is left over.
C6_ScratchReset ==
    (pc = "commit" /\ AllAnswered) =>
        LET s == StringTryMatch(StringRuleDefault, current).st
            b == BlockCommentTryMatch(BlockCommentDefault, current).st
        IN  /\ strRule.number_of_lines = s.number_of_lines
            /\ strRule.recovery_consume = s.recovery_consume
            /\ bcRule.number_of_lines = b.number_of_lines

\* the error tokens of StringRule for a raw and for an escaped NUL
NulErrors ==
    { <<"String contains null character.">>,
      <<"String contains escaped null character.">> }

\* the index of the first character of s that is in set, 0 when none is
FirstIn(s, set) ==
    IF \E i \in DOMAIN s : s[i] \in set
    THEN CHOOSE i \in DOMAIN s : s[i] \in set /\ \A j \in 1..(i - 1) : s[j] \notin set
    ELSE 0

\* the text right after the first quote or newline that follows the first
\* NUL of s, empty when no quote or newline follows it
AfterNulRecovery(s) ==
    LET p    == FirstIn(s, {NUL})
        tail == Drop(s, p)
        e    == FirstIn(tail, {NL, QUOTE})
    IN  IF e = 0 THEN <<>> ELSE Drop(tail, e)

\* the documented example "ab<NUL>cd" newline class
NulSample ==
    <<QUOTE, "a", "b", NUL, "c", "d", QUOTE, NL, "c", "l", "a", "s", "s">>

\* C8: recovery after a NUL in a string.  The error token of a string with
\* a NUL ends at the NUL (before a raw NUL, after an escaped one), its
\* commit resumes right after the next quote or newline that follows the
\* NUL, or at the end of the input; the example ends with the keyword
\* class on line 2.
C8_NulRecovery ==
    [][ /\ (pc = "commit" /\ current_match.token.kind = "Error"
              /\ current_match.token.val \in NulErrors) =>
               LET p == FirstIn(current, {NUL})
               IN  /\ current_match.token.length =
                         ByteLen(Prefix(current,
                             IF current_match.token.val[1] = "String contains null character."
                             THEN p - 1 ELSE p))
                   /\ pc' = "loop"
                   /\ current' = AfterNulRecovery(current)
        /\ (pc' = "done" /\ input' = NulSample) =>
               /\ result'[Len(result')].token = Token("Keyword", <<"Class">>, 5)
               /\ result'[Len(result')].context.line_number = 2 ]_vars

RECURSIVE BalanceAt(_, _, _)
\* the index of the last character of the closer that brings the depth of
\* the delimiters read from index i on back to 0, where depth delimiters are
\* open before i; 0 when the text ends first.  Delimiters are read from
\* left to right and do not overlap.
BalanceAt(s, i, depth) ==
    IF i > Len(s) THEN 0
    ELSE IF i < Len(s) /\ s[i] = "(" /\ s[i + 1] = "*"
         THEN BalanceAt(s, i + 2, depth + 1)
    ELSE IF i < Len(s) /\ s[i] = "*" /\ s[i + 1] = ")"
         THEN IF depth = 1 THEN i + 1 ELSE BalanceAt(s, i + 2, depth - 1)
    ELSE BalanceAt(s, i + 1, depth)

\* the index of the rule of the list that is the BlockCommentRule
BlockCommentIndex == CHOOSE i \in DOMAIN rules : rules[i].type = "BlockComment"

\* the tokens of result, without their contexts
ResultTokens == [i \in DOMAIN result |-> result[i].token]

\* C7: comment nesting.  At an input that starts with the opening delimiter,
\* BlockCommentRule::try_match returns a BlockComment token exactly when a
\* closer balances the opener, and the token ends at that closer; the
\* nested example lexes as one BlockComment token over the whole text, the
\* other example as a BlockComment token, a blank, and the error token of
\* an unmatched closer.
C7_CommentNesting ==
    /\ (pc = "commit" /\ AllAnswered /\ StartsWith(current, <<"(", "*">>)) =>
          LET tok == attempts[BlockCommentIndex]
              e   == BalanceAt(current, 1, 0)
          IN  /\ IsSome(tok)
              /\ (tok.kind = "BlockComment") = (e # 0)
              /\ e # 0 => tok = Token("BlockComment", <<>>, ByteLen(Prefix(current, e)))
    /\ (pc = "done" /\ input = NestedSample /\ rules = CliRules) =>
          ResultTokens = <<Token("BlockComment", <<>>, 15)>>
    /\ (pc = "done" /\ input = CloserSample /\ rules = CliRules) =>
          ResultTokens = << Token("BlockComment", <<>>, 7),
                            Token("Whitespace", <<>>, 1),
                            Token("Error", <<"Unmatched *)">>, 2) >>

\* C7 witness: a BlockComment token was pushed that spans a nested pair and
\* ends at the closer that balances the opening delimiter
C7_Witness ==
    /\ pc = "loop"
    /\ Len(result) = 1
    /\ LastPushed.token.kind = "BlockComment"
    /\ LET span == Prefix(input, Len(input) - Len(current))
       IN  /\ \E i \in 3..Len(span) - 1 : span[i] = "(" /\ span[i + 1] = "*"
           /\ BalanceAt(input, 1, 0) = Len(span)
           /\ LastPushed.token.length = ByteLen(span)

\* the entries of order whose key equals the start of source when case is
\* ignored
MatchingEntries(order, source) ==
    {i \in DOMAIN order :
        /\ Len(order[i].key) <= Len(source)
        /\ LowerStr(Prefix(source, Len(order[i].key))) = LowerStr(order[i].key)}

\* the keyword token of the longest matching key, no token when none matches
LongestKeyword(order, source) ==
    LET m == MatchingEntries(order, source)
    IN  IF m = {} THEN NoToken
        ELSE LET i == CHOOSE i \in m :
                          \A j \in m : Len(order[j].key) <= Len(order[i].key)
             IN  Token("Keyword", <<order[i].kind>>, ByteLen(order[i].key))

\* C9: keyword longest match.  KeywordRule::try_match answers at every
\* input, in every iteration order of the mapping, with the keyword of the
\* longest key that equals the start of the input case-insensitively, and
\* with None when no key does; the first token of the example is the
\* Inherits keyword of length 8.
C9_KeywordLongest ==
    /\ pc = "panic" => AllAnswered
    /\ pc = "commit" => attempts[1] = LongestKeyword(kwOrder, current)
    /\ (input = InheritsSample /\ result # <<>>) =>
          result[1].token = Token("Keyword", <<"Inherits">>, 8)

\* the scan of the printed form of origin has pushed the String token of
\* the whole text with the value origin, and has not aborted
RoundTrip ==
    /\ pc # "panic"
    /\ result # <<>> => result = << [token |-> Token("String", origin, ByteLen(input)),
                                     context |-> context] >>

\* C10 as stated: the round trip for every value of a String token.
C10_RoundTripAll == origin # NoOrigin => RoundTrip

\* the characters escaped_string writes as themselves or as one of the
\* escapes \\ \" \n \t \b \f
Plain(s) == \A i \in DOMAIN s : s[i] \in {NL, TAB, BS, FF} \/ IsPrintableAscii(s[i])

\* C10: string escape round trip.  For every value V of a String token
\* whose characters are printable ASCII, newline, tab, backspace or form
\* feed, the scan of the quoted escaped_string(V) pushes one String token
\* whose value is V.
C10_RoundTripPlain == (origin # NoOrigin /\ Plain(origin)) => RoundTrip

\* C10 witness: the scan of a printed form has returned the value it was
\* printed from, and the value holds a newline, a quote or a backslash
C10_Witness ==
    /\ pc = "done"
    /\ origin # NoOrigin
    /\ Len(result) = 1
    /\ result[1].token = Token("String", origin, ByteLen(input))
    /\ \E i, j \in DOMAIN origin : origin[i] = NL /\ origin[j] \in {QUOTE, BSLASH}

\* C11: token length bounds.  Every token a rule's try_match returned at the
\* remaining input of this iteration is longer than 0 and not longer than
\* that input, in bytes.
C11_TokenLengthBounds ==
    pc \in {"commit", "panic"} =>
        \A i \in DOMAIN attempts :
            IsSome(attempts[i]) =>
                /\ attempts[i].length > 0
                /\ attempts[i].length <= ByteLen(current)

\* C11 witness: at an input of several bytes one rule returned a token of
\* the whole input, another rule a token of one byte, and the stateful
\* rules and a regex rule are among those that matched
C11_Witness ==
    /\ pc = "commit"
    /\ AllAnswered
    /\ ByteLen(current) > 2
    /\ \E i, j, k \in DOMAIN attempts :
          /\ IsSome(attempts[i]) /\ attempts[i].length = ByteLen(current)
          /\ rules[i].type \in {"String", "BlockComment"}
          /\ IsSome(attempts[j]) /\ attempts[j].length = 1
          /\ IsSome(attempts[k]) /\ rules[k].type = "Regex"

\* a is what is left of b after some of its first characters
IsSuffix(a, b) == Len(a) <= Len(b) /\ a = Drop(b, Len(b) - Len(a))

\* C12: source order, no re-visiting.  The remaining input is a suffix of
\* the input of the call; a commit leaves a shorter suffix of the remaining
\* input it matched at, no shorter than the token allows, so that the next
\* token starts where this commit stopped and not before the end of this
\* token; it appends one pair to result and keeps the pairs already there,
\* and no other step of the call touches result.
C12_SourceOrder ==
    [][ /\ IsSuffix(current', input')
        /\ (pc = "commit" /\ pc' = "loop") =>
              /\ IsSuffix(current', current)
              /\ Len(current') < Len(current)
              /\ ByteLen(Span) >= current_match.token.length
              /\ current_match.token = attempts[current_match.idx]
              /\ Len(result') = Len(result) + 1
              /\ SubSeq(result', 1, Len(result)) = result
              /\ result'[Len(result')].token = current_match.token
        /\ (pc = "loop" \/ pc' = "panic") => result' = result ]_vars

\* C12 witness: three tokens were pushed, one with a newline and one after
\* it, and input is left
C12_Witness ==
    /\ pc = "loop"
    /\ Len(result) >= 3
    /\ current # <<>>
    /\ result[Len(result)].context.line_number > 1

\* a literal read by index: its closing quote and its value, or no success
StringScan(ok, end, val) == [ok |-> ok, end |-> end, val |-> val]

RECURSIVE StringRef(_, _, _)
\* the literal of s read from index i on with val read so far: it fails at
\* the end of s, at a NUL, at an escaped NUL and at an unescaped newline,
\* and ends at the first quote that no backslash escapes
StringRef(s, i, val) ==
    IF i > Len(s) THEN StringScan(FALSE, 0, val)
    ELSE IF s[i] \in {NUL, NL} THEN StringScan(FALSE, 0, val)
    ELSE IF s[i] = BSLASH /\ i < Len(s) THEN
        IF s[i + 1] = NUL THEN StringScan(FALSE, 0, val)
        ELSE StringRef(s, i + 2,
                       Append(val, CASE s[i + 1] = "b" -> BS
                                     [] s[i + 1] = "t" -> TAB
                                     [] s[i + 1] = "n" -> NL
                                     [] s[i + 1] = "f" -> FF
                                     [] OTHER -> s[i + 1]))
    ELSE IF s[i] = QUOTE THEN StringScan(TRUE, i, val)
    ELSE StringRef(s, i + 1, Append(val, s[i]))

\* C13: successful string scan.  At an input that starts with a quote and
\* has a closing quote before a NUL, an escaped NUL, an unescaped newline
\* and the end, StringRule::try_match returns the String token that ends
\* with the closing quote and holds the unescaped text between the quotes;
\* the two tests give the lengths 13 and 25.
C13_StringScan ==
    (pc = "commit" /\ AllAnswered /\ rules = <<StringRule>>
        /\ StartsWith(current, <<QUOTE>>)) =>
        LET r == StringRef(current, 2, <<>>)
        IN  /\ r.ok => attempts[1] =
                  Token("String", r.val, ByteLen(Prefix(current, r.end)))
            /\ current = HelloSample =>
                  attempts[1] = Token("String",
                      <<"H", "e", "l", "l", "o", SP, "W", "o", "r", "l", "d">>, 13)
            /\ current = NumberSample =>
                  /\ attempts[1].kind = "String"
                  /\ attempts[1].length = 25
                  /\ SubSeq(attempts[1].val, 1, 4) = <<NL, TAB, "T", "o">>

\* C13 witness: a String token was returned whose literal holds a
\* backslash-newline and whose value holds a two-byte character
C13_Witness ==
    /\ pc = "commit"
    /\ origin = NoOrigin
    /\ attempts[1].kind = "String"
    /\ \E i \in 1..(Len(current) - 1) : current[i] = BSLASH /\ current[i + 1] = NL
    /\ \E i \in DOMAIN attempts[1].val : attempts[1].val[i] = EACUTE

\* the whole of the text t is in the language of the pattern named re
FullMatch(re, t) ==
    /\ t # <<>>
    /\ CASE re = "LineComment" ->
                /\ Len(t) >= 2 /\ t[1] = "-" /\ t[2] = "-"
                /\ \A i \in 3..Len(t) : t[i] # NL
         [] re = "True" -> t[1] = "t" /\ LowerStr(t) = <<"t", "r", "u", "e">>
         [] re = "False" -> t[1] = "f" /\ LowerStr(t) = <<"f", "a", "l", "s", "e">>
         [] re = "Int" -> \A i \in DOMAIN t : t[i] \in Digits
         [] re = "TypeId" -> t[1] \in Upper /\ \A i \in 2..Len(t) : t[i] \in IdChars
         [] re = "ObjectId" -> t[1] \in Lower /\ \A i \in 2..Len(t) : t[i] \in IdChars
         [] re = "Newline" -> t = <<NL>>
         [] re = "Whitespace" -> \A i \in DOMAIN t : t[i] \in Blank
         [] re = "CatchAll" -> Len(t) = 1

\* the number of digits s starts with
LeadingDigits(s) ==
    CHOOSE n \in 0..Len(s) :
        /\ \A i \in 1..n : s[i] \in Digits
        /\ n < Len(s) => s[n + 1] \notin Digits

\* C14: anchored regex match.  The token of a regex rule covers a text that
\* starts at position 0 of the input and is in the language of the
\* pattern; the integer rule returns None at an input that does not start
\* with a digit and otherwise a token as long as the leading run of digits,
\* 5 for the text of the test.
C14_AnchoredRegex ==
    (pc = "commit" /\ AllAnswered /\ rules \in {<<r>> : r \in RegexRules}) =>
        LET tok == attempts[1]
            re  == rules[1].re
        IN  /\ IsSome(tok) =>
                  \E n \in 1..Len(current) :
                      /\ tok.length = ByteLen(Prefix(current, n))
                      /\ FullMatch(re, Prefix(current, n))
            /\ re = "Int" =>
                  IF current[1] \notin Digits THEN tok = NoToken
                  ELSE /\ tok.kind = "Int"
                       /\ tok.length = LeadingDigits(current)
            /\ (re = "Int" /\ current = IntSample) => tok.length = 5

\* C14 witness: the integer rule returned a token for the two leading
\* digits of a text that holds another digit further on
C14_Witness ==
    /\ pc = "commit"
    /\ rules[1].re = "Int"
    /\ IsSome(attempts[1])
    /\ attempts[1].length = 2
    /\ \E i \in 4..Len(current) : current[i] \in Digits

\* no rule returned a token in the iteration that has just run
NoRuleMatched ==
    /\ AllAnswered
    /\ \A i \in DOMAIN attempts : ~IsSome(attempts[i])

\* C15: no rule matched is fatal.  When no rule returned a token at a
\* non-empty remaining input, the next step is the panic of expect: no
\* input is skipped, nothing is pushed; and after a panic the call takes no
\* further step, so it returns no token sequence.
C15_NoMatchFatal ==
    [][ /\ (pc = "commit" /\ NoRuleMatched) =>
              /\ pc' = "panic"
              /\ current' = current
              /\ result' = result
        /\ pc # "panic" ]_vars

\* C15 witness: the call has panicked at a position where no rule matched,
\* after it had pushed tokens
C15_Witness ==
    /\ pc = "panic"
    /\ NoRuleMatched
    /\ current # <<>>
    /\ Len(result) >= 2

\* values of the fields of the two stateful rules, as earlier calls of
\* try_match and accept may have left them
ScratchStates ==
    { RuleStates([buffer |-> b, number_of_lines |-> n, recovery_consume |-> r],
                 [depth |-> d, number_of_lines |-> n])
        : b \in {<<>>, <<"a", NL>>}, n \in {0, 2}, r \in {NoRecovery, 3},
          d \in {0, 1} }

\* C16: try_match is pure with respect to its result.  What every rule
\* returned at the remaining input of this iteration is what it returns
\* there with fresh fields, and with any other values of its fields; and
\* the iteration aborts only if it aborts with fresh fields.
C16_TryMatchPure ==
    /\ (pc = "commit" /\ AllAnswered) =>
          \A i \in DOMAIN rules :
              \A st \in {RuleStates(StringRuleDefault, BlockCommentDefault)}
                         \cup IF rules[i].type \in {"String", "BlockComment"}
                              THEN ScratchStates ELSE {} :
                  LET o == TryMatch(rules[i], kwOrder, st, current)
                  IN  ~o.panic /\ o.tok = attempts[i]
    /\ (pc = "panic" /\ ~AllAnswered) =>
          TryMatch(rules[Len(attempts) + 1], kwOrder,
                   RuleStates(StringRuleDefault, BlockCommentDefault), current).panic

\* the index of the rule of the list that is the StringRule
StringIndex == CHOOSE i \in DOMAIN rules : rules[i].type = "String"

\* C16 witness: a string is scanned to its closing quote after an earlier
\* string with an escaped newline and a comment with a newline were
\* committed in the same call
C16_Witness ==
    /\ pc = "commit"
    /\ AllAnswered
    /\ Len(result) = 3
    /\ result[1].token.kind = "BlockComment" /\ result[1].context.line_number = 2
    /\ result[2].token.kind = "String" /\ result[2].context.line_number = 3
    /\ attempts[StringIndex] = Token("String", <<"a">>, 3)
    /\ attempts[BlockCommentIndex] = NoToken

\* C17: context snapshot timing and stability.  The context pushed with a
\* token is the shared context as the token's own accept has left it (for
\* the newline rule: one line further than before the commit), and the
\* contexts pushed earlier stay as they were pushed, whatever the shared
\* line counter does later in the call.
C17_SnapshotTiming ==
    [][ /\ (pc = "commit" /\ pc' = "loop") =>
              /\ result'[Len(result')].context = context'
              /\ (rules[current_match.idx].type = "Regex"
                    /\ rules[current_match.idx].re = "Newline") =>
                     result'[Len(result')].context.line_number =
                         context.line_number + 1
              /\ \A k \in DOMAIN result : result'[k].context = result[k].context
        /\ (pc = "loop" \/ pc' = "panic") =>
              \A k \in DOMAIN result :
                  k \in DOMAIN result' /\ result'[k].context = result[k].context ]_vars

\* C17 witness: the first token is a newline pushed with line 2, and the
\* shared counter has moved on since
C17_Witness ==
    /\ pc = "loop"
    /\ Len(result) >= 2
    /\ result[1].token.kind = "Whitespace"
    /\ result[1].context.line_number = 2
    /\ context.line_number >= 3

\* the error token of a closer without an opener
UnmatchedCloser == Token("Error", <<"Unmatched *)">>, 2)

\* C18: unmatched closer.  At a remaining input that starts with the
\* closing delimiter, BlockCommentRule::try_match returns the error token
\* of length 2 whatever follows, leaving its fields as they are, the token
\* wins the iteration, and its commit resumes right after the two
\* characters.
C18_UnmatchedCloser ==
    [][ (pc = "commit" /\ AllAnswered /\ StartsWith(current, <<"*", ")">>)) =>
            /\ attempts[BlockCommentIndex] = UnmatchedCloser
            /\ BlockCommentTryMatch(bcRule, current) = Outcome(bcRule, UnmatchedCloser)
            /\ current_match.token = UnmatchedCloser
            /\ pc' = "loop"
            /\ current' = Drop(current, 2)
            /\ result'[Len(result')].token = UnmatchedCloser ]_vars

\* C18 witness: the error token of an unmatched closer was pushed after a
\* comment, and input is left after it
C18_Witness ==
    /\ pc = "loop"
    /\ Len(result) >= 2
    /\ LastPushed.token = UnmatchedCloser
    /\ result[Len(result) - 1].token.kind = "BlockComment"
    /\ current # <<>>

\* how a literal ends: fate, the index it ends at, and the number of
\* backslash-newline pairs before that index
StringEnd(fate, end, nl) == [fate |-> fate, end |-> end, nl |-> nl]

RECURSIVE StringFate(_, _, _)
\* the literal of s read from index i on, nl escaped newlines read so far
StringFate(s, i, nl) ==
    IF i > Len(s) THEN StringEnd("eof", Len(s), nl)
    ELSE IF s[i] = NUL THEN StringEnd("nul", i, nl)
    ELSE IF s[i] = NL THEN StringEnd("newline", i, nl)
    ELSE IF s[i] = BSLASH /\ i < Len(s) THEN
        IF s[i + 1] = NUL THEN StringEnd("escaped nul", i + 1, nl)
        ELSE StringFate(s, i + 2, IF s[i + 1] = NL THEN nl + 1 ELSE nl)
    ELSE IF s[i] = QUOTE THEN StringEnd("closed", i, nl)
    ELSE StringFate(s, i + 1, nl)

\* the list of the call has a rule of this type
HasRule(type) == \E i \in DOMAIN rules : rules[i].type = type

\* the commit of this step pushes tok, the longest token of the iteration,
\* and leaves no input
CommitsLast(tok) ==
    /\ current_match.token = tok
    /\ pc' = "loop"
    /\ current' = <<>>
    /\ result'[Len(result')].token = tok

\* C19: unterminated construct at the end of the input.  A string that the
\* end of the input cuts short before a NUL or an unescaped newline, and a
\* comment that it cuts short, give an error token as long as the whole
\* remaining input; its commit leaves no input, and the call returns with
\* that token as the last one.
C19_UnterminatedAtEof ==
    [][ /\ (pc = "commit" /\ AllAnswered /\ HasRule("String")
              /\ StartsWith(current, <<QUOTE>>)
              /\ StringFate(current, 2, 0).fate = "eof") =>
              LET tok == Token("Error", <<"EOF in string constant.">>, ByteLen(current))
              IN  attempts[StringIndex] = tok /\ CommitsLast(tok)
        /\ (pc = "commit" /\ AllAnswered /\ HasRule("BlockComment")
              /\ StartsWith(current, <<"(", "*">>)
              /\ BalanceAt(current, 1, 0) = 0) =>
              LET tok == Token("Error", <<"EOF in comment">>, ByteLen(current))
              IN  attempts[BlockCommentIndex] = tok /\ CommitsLast(tok)
        /\ (pc = "loop" /\ current = <<>>) => pc' = "done" /\ result' = result ]_vars

\* C19 witness: the call has returned, its last token is the error of a
\* string with a two-byte character that the end of the input cut short,
\* and a token precedes it
C19_Witness ==
    /\ pc = "done"
    /\ Len(result) = 2
    /\ LastPushed.token = Token("Error", <<"EOF in string constant.">>, 3)
    /\ input[Len(input)] = EACUTE

\* C20: unescaped newline in a string.  A string that meets a newline
\* without a backslash before its closing quote gives the error token
\* that ends with that newline; its commit adds to line_number 1 and the
\* number of backslash-newline pairs of the literal, and resumes at the
\* first character after the newline.
C20_UnescapedNewline ==
    [][ (pc = "commit" /\ AllAnswered /\ HasRule("String")
            /\ StartsWith(current, <<QUOTE>>)
            /\ StringFate(current, 2, 0).fate = "newline") =>
            LET f   == StringFate(current, 2, 0)
                tok == Token("Error", <<"Unterminated string constant.">>,
                             ByteLen(Prefix(current, f.end)))
            IN  /\ current[f.end] = NL
                /\ attempts[StringIndex] = tok
                /\ current_match.token = tok
                /\ pc' = "loop"
                /\ current' = Drop(current, f.end)
                /\ context'.line_number = context.line_number + 1 + f.nl
                /\ result'[Len(result')] = [token |-> tok, context |-> context'] ]_vars

\* C20 witness: the error token of a string with an escaped newline and
\* then an unescaped one was pushed with line 3, and the next line is left
C20_Witness ==
    /\ pc = "loop"
    /\ Len(result) = 1
    /\ LastPushed.token.kind = "Error"
    /\ LastPushed.token.val = <<"Unterminated string constant.">>
    /\ LastPushed.context.line_number = 3
    /\ current # <<>>

\* C21: no stale recovery skip.  When the scan of a string has ended in
\* success, at the end of the input or at an unescaped newline, no
\* recovery distance is recorded and the commit of its token resumes
\* exactly token.length bytes further, also after an earlier scan of the
\* same rule has recorded a recovery distance for a NUL.
C21_NoStaleRecovery ==
    [][ (pc = "commit" /\ AllAnswered /\ HasRule("String")
            /\ StartsWith(current, <<QUOTE>>)
            /\ StringFate(current, 2, 0).fate \in {"closed", "eof", "newline"}) =>
            /\ current_match.idx = StringIndex
            /\ strRule.recovery_consume = NoRecovery
            /\ pc' = "loop"
            /\ IsSuffix(current', current)
            /\ ByteLen(current') = ByteLen(current) - current_match.token.length ]_vars

\* C21 witness: a String token was pushed right after the error token of a
\* NUL whose commit skipped a recovery distance
C21_Witness ==
    /\ pc = "loop"
    /\ Len(result) = 2
    /\ result[1].token.val \in NulErrors
    /\ result[2].token.kind = "String"
    /\ ByteLen(input) - ByteLen(current)
          > result[1].token.length + result[2].token.length

\* the index of the line comment rule in the list of the call
LineCommentIndex ==
    CHOOSE i \in DOMAIN rules : rules[i].type = "Regex" /\ rules[i].re = "LineComment"

\* the number of characters of s before its first newline, all when it has
\* none
LineLength(s) == IF FirstIn(s, {NL}) = 0 THEN Len(s) ELSE FirstIn(s, {NL}) - 1

\* C22: line comment commit.  With the rule list of the command line tool,
\* at an input that starts with two dashes the line comment rule returns
\* the token of the text up to the newline, the newline left out; when a
\* newline follows, the commit resumes after that newline and adds 1 to
\* line_number; when none follows, the rule matches all the same, the
\* commit leaves no input and line_number stays.
C22_LineCommentCommit ==
    [][ (pc = "commit" /\ AllAnswered /\ rules = CliRules
            /\ StartsWith(current, <<"-", "-">>)) =>
            LET n   == LineLength(current)
                tok == Token("LineComment", <<>>, ByteLen(Prefix(current, n)))
            IN  /\ attempts[LineCommentIndex] = tok
                /\ current_match.token = tok
                /\ pc' = "loop"
                /\ result'[Len(result')].token = tok
                /\ IF n < Len(current)
                   THEN /\ current' = Drop(current, n + 1)
                        /\ context'.line_number = context.line_number + 1
                   ELSE /\ current' = <<>>
                        /\ context'.line_number = context.line_number ]_vars

\* C22 witness: a line comment on the second line was pushed with line 3,
\* and the text after its newline is left
C22_Witness ==
    /\ pc = "loop"
    /\ Len(result) = 2
    /\ LastPushed.token.kind = "LineComment"
    /\ LastPushed.token.length >= 3
    /\ LastPushed.context.line_number = 3
    /\ current # <<>>

\* C23: newlines in the recovery skip are counted.  The commit of the
\* error token of a NUL in a string adds to line_number the number of
\* newlines in the whole span it consumes, the recovery skip included.
C23_RecoveryNewlines ==
    [][ (pc = "commit" /\ pc' = "loop"
            /\ current_match.token.kind = "Error"
            /\ current_match.token.val \in NulErrors) =>
            context'.line_number = context.line_number + Newlines(Span) ]_vars

\* C24: comment depth never goes negative.  The depth field is never below
\* 0; in a scan of consume_comment it is at least 1 after every pass of the
\* loop but the one that returns success, where it is 0; and the error
\* token of an unmatched closer comes only from an input that starts with
\* the closer.
C24_DepthNotNegative ==
    /\ bcRule.depth >= 0
    /\ (pc = "commit" /\ AllAnswered /\ HasRule("BlockComment")) =>
          /\ attempts[BlockCommentIndex] = UnmatchedCloser =>
                StartsWith(current, <<"*", ")">>)
          /\ StartsWith(current, <<"(", "*">>) =>
                LET d == CommentDepths(CommentReset(bcRule), CursorFrom(current))
                IN  /\ d[Len(d)] = bcRule.depth
                    /\ \A k \in 1..(Len(d) - 1) : d[k] >= 1
                    /\ d[Len(d)] >= 0
                    /\ (d[Len(d)] = 0) = (attempts[BlockCommentIndex].kind = "BlockComment")

\* C24 witness: a comment with a nested pair was scanned to its balancing
\* closer: the depth went up to 2 and ended at 0
C24_Witness ==
    /\ pc = "commit"
    /\ AllAnswered
    /\ StartsWith(current, <<"(", "*">>)
    /\ attempts[BlockCommentIndex].kind = "BlockComment"
    /\ bcRule.depth = 0
    /\ LET d == CommentDepths(CommentReset(bcRule), CursorFrom(current))
       IN  \E k \in DOMAIN d : d[k] = 2

\* C25: character-boundary safety.  No call of lex with the rule list of
\* the command line tool aborts, whatever characters the input holds; the
\* offset StringRule::accept slices at after a NUL is the distance in
\* bytes to the end of the recovery skip; and a character that only the
\* last rule of the list matches gives an error token of that one
\* character.
C25_BoundarySafety ==
    /\ pc # "panic"
    /\ (pc = "commit" /\ AllAnswered /\ current_match.idx = StringIndex
          /\ current_match.token.val \in NulErrors) =>
          StringAcceptOffset(strRule, current_match.token) =
              ByteLen(current) - ByteLen(AfterNulRecovery(current))
    /\ (pc = "commit" /\ AllAnswered /\ current_match.idx = Len(rules)) =>
          /\ current_match.token.kind = "Error"
          /\ current_match.token.length = Width(current[1])

===========================================================================
